---- MODULE Spec2Model ----
(***************************************************************************)
(* Model of rekordbox-file-conversion: file discovery (converter.py,       *)
(* getListOfFiles), the song descriptor (song.py, class Song), the         *)
(* conversion decision and execution (converter.py, convert_song) and the  *)
(* batch driver (format_for_rekordbox.py, main).                           *)
(*                                                                         *)
(* Conventions.                                                            *)
(*  - A Python str is a sequence of one-character strings.                 *)
(*  - A decibel value is an integer number of tenths of a dB: the          *)
(*    volumedetect filter prints its readings with one decimal and never   *)
(*    above 0.0 dB, and on those values PEAK_DB - x, the test x == PEAK_DB *)
(*    and (PEAK_DB - x) + x are exact in IEEE double arithmetic.           *)
(*  - A Python value that may be None is a set: {} is None, {v} is v.      *)
(***************************************************************************)
EXTENDS Integers, Sequences, FiniteSets, TLC

VARIABLES
    fs,             \* the file system below Root: a set of directory entries
    lsorder,        \* the order in which os.listdir returns each directory's entries
    outkind,        \* what is at the output path: "absent", "dir", "file", "orphan"
    start,          \* the path getListOfFiles was called with
    files,          \* the list getListOfFiles returned
    pc,             \* position of the program
    conversion_tag, \* main: args.conversion_tag ({} when the option is omitted)
    idx,            \* main: index in files of the file being processed
    cur,            \* the Song under conversion ({} before construction)
    analysis,       \* the volumedetect run of cur: its exit code and stderr lines
    called,         \* main: whether convert_song was called in this iteration
    last,           \* outcome of the latest convert_song call
    outdir,         \* the output directory: output path -> content written
    probedMax,      \* main: highest index of files for which Song() was entered
    failedAt,       \* main: index of the file whose processing raised (0: none)
    log,            \* main: for each file handled so far, what happened to it
    pass            \* conversion spec: 1 for the source file, 2 for its output

vars == <<fs, lsorder, outkind, start, files, pc, conversion_tag, idx, cur, analysis, called,
          last, outdir, probedMax, failedAt, log, pass>>

----------------------------------------------------------------------------
(* Bounds of the model. *)

MaxNodes == 3       \* entries created below Root before discovery runs
MaxDepth == 3       \* nesting depth of the entries created
MaxFiles == 2       \* files in the music directory of a batch run

----------------------------------------------------------------------------
(* Strings. *)

s_aiff == <<"a","i","f","f">>
s_aif  == <<"a","i","f">>
s_flac == <<"f","l","a","c">>
s_wav  == <<"w","a","v">>
s_mp3  == <<"m","p","3">>
s_ogg  == <<"o","g","g">>
s_aac  == <<"a","a","c">>
s_mov  == <<"m","o","v">>
s_pcm_s16le == <<"p","c","m","_","s","1","6","l","e">>

LOSSLESS_FORMATS == <<s_aiff, s_flac, s_wav>>
LOSSY_FORMATS == <<s_mp3, s_ogg, s_aac>>
PEAK_DB == -5
SUPPORTED_FORMATS == LOSSLESS_FORMATS \o LOSSY_FORMATS

Range(s) == {s[i] : i \in 1..Len(s)}

IsPrefix(p, s) == Len(p) <= Len(s) /\ SubSeq(s, 1, Len(p)) = p
IsSuffix(p, s) == Len(p) <= Len(s) /\ SubSeq(s, Len(s) - Len(p) + 1, Len(s)) = p

\* str.find(sub): index (0-based) of the first occurrence of sub, -1 if none.
Find(s, sub) ==
    LET hits == {i \in 0..(Len(s) - Len(sub)) : SubSeq(s, i + 1, i + Len(sub)) = sub}
    IN  IF hits = {} THEN -1 ELSE CHOOSE i \in hits : \A j \in hits : i <= j

\* Positions of character c in s.
Positions(s, c) == {i \in 1..Len(s) : s[i] = c}

\* str.split(c)[0]: everything before the first c (the whole string if none).
SplitFirst(s, c) ==
    LET ps == Positions(s, c)
    IN  IF ps = {} THEN s
        ELSE SubSeq(s, 1, (CHOOSE i \in ps : \A j \in ps : i <= j) - 1)

\* str.split(c)[-1]: everything after the last c (the whole string if none).
SplitLast(s, c) ==
    LET ps == Positions(s, c)
    IN  IF ps = {} THEN s
        ELSE SubSeq(s, (CHOOSE i \in ps : \A j \in ps : i >= j) + 1, Len(s))

\* os.path.join(dirName, entry) for a relative entry and a dirName without
\* trailing separator.
Join(dirName, entry) == dirName \o <<"/">> \o entry

\* re.search("\.(aiff|flac|wav|mp3|ogg|aac|aif)$", path): the pattern built at
\* converter.py:16-17.  "$" matches at the end of the string and also just
\* before a newline that ends the string.
valid_file_ext(path) ==
    \E e \in Range(SUPPORTED_FORMATS) \cup {s_aif} :
        \/ IsSuffix(<<".">> \o e, path)
        \/ IsSuffix(<<".">> \o e \o <<"\n">>, path)

----------------------------------------------------------------------------
(* The file system and os.listdir / os.path.isdir. *)

Root == <<"m">>
CFR == <<"C","o","n","v","e","r","t","e","d"," ","f","o","r"," ",
         "R","e","k","o","r","d","b","o","x">>

\* Entry names the environment may create.
FileNames ==
    { <<"a",".","a","i","f","f">>, <<"a",".","a","i","f">>,
      <<"a",".","f","l","a","c">>, <<"a",".","w","a","v">>,
      <<"a",".","m","p","3">>,     <<"a",".","o","g","g">>,
      <<"a",".","a","a","c">>,     <<"a",".","b",".","w","a","v">>,
      <<".","_","a",".","m","p","3">>, <<"_",".","a",".","m","p","3">>,
      <<"a",".","t","x","t">>,     <<"a","m","p","3">>,
      <<"a",".","m","p","3","x">>, <<"a",".","m","p">>,
      <<"a",".","m","p","3","\n">> }
DirNames == { <<"d",".","m","p","3">>, CFR }

NodePath(n) == Join(n.parent, n.name)

\* Nesting depth of an entry created directly inside directory d.
Depth(d) == Cardinality(Positions(d, "/")) + 1

isdir(path) == path = Root \/ \E n \in fs : n.isdir /\ NodePath(n) = path

Dirs == {Root} \cup {NodePath(n) : n \in {x \in fs : x.isdir}}

RECURSIVE Perms(_)
\* The enumerations of a finite set.  os.listdir returns the entries of a
\* directory in arbitrary order: any of them may be the file system's.
Perms(S) ==
    IF S = {} THEN {<<>>}
    ELSE UNION { { <<x>> \o q : q \in Perms(S \ {x}) } : x \in S }

\* The names of the entries of directory d.
Entries(d) == {n.name : n \in {x \in fs : x.parent = d}}

\* The directories at or below path p.
DirsAt(p) == {d \in Dirs : d = p \/ IsPrefix(p \o <<"/">>, d)}

RECURSIVE Listings(_)
\* The ways the file system may enumerate the directories in D: one
\* enumeration of its entries for each of them.
Listings(D) ==
    IF D = {} THEN {<<>>}
    ELSE LET d == CHOOSE x \in D : TRUE
         IN  {f @@ (d :> q) : f \in Listings(D \ {d}), q \in Perms(Entries(d))}

\* os.listdir(dirName): the names of the entries of dirName, in the order the
\* file system enumerates them.
listdir(dirName) == lsorder[dirName]

----------------------------------------------------------------------------
(* converter.py: getListOfFiles. *)

\* converter.py:28, the test that sends the walk into a subdirectory.
Descend(fullPath, entry) == isdir(fullPath) /\ entry # CFR

\* converter.py:32, the test that keeps a file.
Keep(fullPath, entry) == valid_file_ext(fullPath) /\ Find(entry, <<".", "_">>) # 0

RECURSIVE getListOfFiles(_), Walk(_, _, _)

\* converter.py:24-33, the loop over the entries of dirName; acc is "files".
Walk(dirName, listOfFile, acc) ==
    IF listOfFile = <<>> THEN acc
    ELSE LET entry == Head(listOfFile)
             fullPath == Join(dirName, entry)
             acc2 == IF Descend(fullPath, entry)
                       THEN acc \o getListOfFiles(fullPath)
                     ELSE IF Keep(fullPath, entry)
                       THEN Append(acc, <<fullPath, entry>>)
                     ELSE acc
         IN  Walk(dirName, Tail(listOfFile), acc2)

getListOfFiles(dirName) ==
    IF ~isdir(dirName)
      THEN << <<dirName, SplitLast(dirName, "/")>> >>
      ELSE Walk(dirName, listdir(dirName), <<>>)

----------------------------------------------------------------------------
(* song.py: class Song. *)

Digits == <<"0","1","2","3","4","5","6","7","8","9">>

IsDigits(s) == s # <<>> /\ \A i \in 1..Len(s) : s[i] \in Range(Digits)

DigitVal(c) == (CHOOSE i \in 1..10 : Digits[i] = c) - 1

RECURSIVE ParseInt(_)
\* int(s) for a string of decimal digits.
ParseInt(s) ==
    IF Len(s) = 0 THEN 0
    ELSE 10 * ParseInt(SubSeq(s, 1, Len(s) - 1)) + DigitVal(s[Len(s)])

RECURSIVE Str(_)
\* str(n) / "{}".format(n) for an integer n >= 0.
Str(n) == IF n < 10 THEN <<Digits[n + 1]>> ELSE Str(n \div 10) \o <<Digits[(n % 10) + 1]>>

\* s.replace(c, ""): s without its occurrences of the character c.
Remove(s, c) == SelectSeq(s, LAMBDA x : x # c)

InList(x, list) == x \in Range(list)

\* song.py:69-86.  The stderr lines of the volumedetect run are read to the
\* end of the stream; each line that carries a mean_volume or max_volume
\* reading overwrites the entry of self.volume.  A line is [label, db]: its
\* label and the number between ":" and "dB", in tenths of a dB.  The exit
\* status of the process (an.exit) is not read.
RECURSIVE ScanLines(_, _)
ScanLines(lines, volume) ==
    IF lines = <<>> THEN volume
    ELSE LET line == Head(lines)
             v2 == IF line.label = "mean_volume"
                     THEN [volume EXCEPT !.mean = {line.db}]
                   ELSE IF line.label = "max_volume"
                     THEN [volume EXCEPT !.max = {line.db}]
                   ELSE volume
         IN  ScanLines(Tail(lines), v2)

\* Mutation of get_volume_info: the readings are kept only after a normal exit.
get_volume_info_checked(an) ==
    IF an.exit = 0 THEN ScanLines(an.lines, [mean |-> {}, max |-> {}])
    ELSE [mean |-> {}, max |-> {}]

get_volume_info(an) == ScanLines(an.lines, [mean |-> {}, max |-> {}])

\* Mutation of BitRateOf: the bit rate is kept whenever the stream reports one.
BitRateOf_reported(format, pr) ==
    IF pr.bit_rate = <<>> THEN {} ELSE {ParseInt(pr.bit_rate)}

\* song.py:22.
BitDepthOf(format, pr) ==
    IF ~InList(format, <<s_aiff, s_flac, s_wav>>) THEN {}
    ELSE {ParseInt(Remove(pr.sample_fmt, "s"))}

\* song.py:23.
BitRateOf(format, pr) ==
    IF ~InList(format, <<s_mp3, s_ogg, s_aac>>) THEN {}
    ELSE {ParseInt(pr.bit_rate)}

\* song.py:19.
SongName(filename) == SplitFirst(filename, ".")

\* Whether Song.__init__ (song.py:8-28) returns: ffmpeg.probe raises on a file
\* it cannot read (pr.ok), int() raises on a string that is no number, and a
\* dictionary lookup raises on a missing key (pr.bit_rate, pr.tags are {} when
\* ffprobe reports no such key).
SongConstructs(pr) ==
    /\ pr.ok
    /\ IsDigits(pr.sample_rate)
    /\ InList(pr.format_name, <<s_aiff, s_flac, s_wav>>)
          => IsDigits(Remove(pr.sample_fmt, "s"))
    /\ InList(pr.format_name, <<s_mp3, s_ogg, s_aac>>)
          => (pr.bit_rate # <<>> /\ IsDigits(pr.bit_rate))
    /\ pr.tags # {}

\* song.py:8-28, for a probe result pr and a volumedetect run an.
Song(path, filename, pr, an) ==
    [ input_stream |-> path,
      codec        |-> pr.codec_name,
      format       |-> pr.format_name,
      song_name    |-> SongName(filename),
      sample_rate  |-> ParseInt(pr.sample_rate),
      bit_depth    |-> BitDepthOf(pr.format_name, pr),
      bit_rate     |-> BitRateOf(pr.format_name, pr),
      tags         |-> CHOOSE t \in pr.tags : TRUE,
      volume       |-> get_volume_info(an) ]

\* song.py:65-66.  A tag mapping is a set of <<key, value>> pairs, one per key.
has_tag(song, tag_name) == \E kv \in song.tags : kv[1] = tag_name
TagValue(song, tag_name) == (CHOOSE kv \in song.tags : kv[1] = tag_name)[2]

Min(a, b) == IF a <= b THEN a ELSE b

----------------------------------------------------------------------------
(* converter.py: convert_song. *)

\* converter.py:43-44, the condition under "if not": the file is left alone.
NeedsNoConversion(input_format, input_bit_info, input_sample_rate, input_max_volume) ==
    /\ input_sample_rate <= 44100
    /\ input_max_volume = PEAK_DB
    /\ \/ (InList(input_format, <<s_aiff, s_wav>>) /\ input_bit_info <= 16)
       \/ (InList(input_format, <<s_mp3, s_aac>>) /\ input_bit_info <= 320)

\* Mutation of Clamp: the larger of the two.
Clamp_up(value, ceiling) == IF value >= ceiling THEN value ELSE ceiling

\* converter.py:49-50, 55-56: min(value, ceiling).
Clamp(value, ceiling) == Min(value, ceiling)

\* Mutation of VolumeOffset: the offset with its sign reversed.
VolumeOffset_reversed(input_max_volume) == input_max_volume - PEAK_DB

\* converter.py:46.
VolumeOffset(input_max_volume) == PEAK_DB - input_max_volume

REKORDBOX_TAGS == { <<"REKORDBOX_READY", "1">>, <<"CONVERT_FOR_REKORDBOX", "0">> }

\* converter.py:45-84: the ffmpeg invocation built for a song that is to be
\* converted.  volume is {} when the input stream is encoded as it is and
\* {offset} when the 'volume' filter is applied first.
Encode(song, output_dir, input_bit_info, input_max_volume) ==
    LET lossless == InList(song.format, LOSSLESS_FORMATS)
        volume_offset == VolumeOffset(input_max_volume)
        output_format == IF lossless THEN s_aiff ELSE s_mp3
        output_sample_rate == Clamp(song.sample_rate, 44100)
    IN  [ source        |-> song.input_stream,
          volume        |-> IF volume_offset = 0 THEN {} ELSE {volume_offset},
          acodec        |-> IF lossless THEN s_pcm_s16le ELSE s_mp3,
          f             |-> output_format,
          ar            |-> Str(output_sample_rate),
          write_id3v2   |-> 1,
          metadata      |-> REKORDBOX_TAGS,
          sample_fmt    |-> IF lossless
                              THEN {<<"s">> \o Str(Clamp(input_bit_info, 16))}
                              ELSE {},
          audio_bitrate |-> IF lossless THEN {} ELSE {Clamp(input_bit_info, 320000)},
          path          |-> output_dir \o <<"/">> \o song.song_name
                              \o <<".">> \o output_format ]

\* converter.py:37-86.  The outcome of convert_song(song, output_dir):
\*   kind "skipped": the "does not need to be converted" notice, no encode;
\*   kind "encoded": the "Converting" notice and one ffmpeg run (enc), which
\*                   returned normally;
\*   kind "raised":  an exception left convert_song: get_max_volume found no
\*                   'max' reading (KeyError, line 41), the format is in
\*                   neither family so that output_codec is unbound at line 65
\*                   (UnboundLocalError), or the ffmpeg run failed (run_ok
\*                   false: ffmpeg.Error after the "Converting" notice).
convert_song(song, output_dir, run_ok) ==
    IF song.volume.max = {}
      THEN [kind |-> "raised", notice |-> "none", enc |-> {}]
    ELSE
    LET input_format == song.format
        input_bit_info == IF InList(input_format, LOSSLESS_FORMATS)
                            THEN song.bit_depth ELSE song.bit_rate
        bit_info == CHOOSE b \in input_bit_info : TRUE
        input_sample_rate == song.sample_rate
        input_max_volume == CHOOSE v \in song.volume.max : TRUE
    IN  IF NeedsNoConversion(input_format, bit_info, input_sample_rate, input_max_volume)
          THEN [kind |-> "skipped", notice |-> "no need", enc |-> {}]
        ELSE IF ~InList(input_format, SUPPORTED_FORMATS)
          THEN [kind |-> "raised", notice |-> "none", enc |-> {}]
        ELSE [kind   |-> IF run_ok THEN "encoded" ELSE "raised",
              notice |-> "converting",
              enc    |-> {Encode(song, output_dir, bit_info, input_max_volume)}]

----------------------------------------------------------------------------
(* Values of the variables a specification does not use. *)

NoOutcome == [kind |-> "none", notice |-> "none", enc |-> {}]
NoAnalysis == [exit |-> 0, lines |-> <<>>]

IdleDiscovery == start = <<>> /\ files = <<>> /\ lsorder = <<>>
IdleSong == cur = {} /\ analysis = NoAnalysis /\ last = NoOutcome /\ pass = 0
IdleMain == /\ conversion_tag = {} /\ idx = 0 /\ called = FALSE /\ outdir = {}
            /\ probedMax = 0 /\ failedAt = 0 /\ log = <<>> /\ outkind = "dir"

----------------------------------------------------------------------------
(* Discovery: the environment fills the tree below Root, then getListOfFiles *)
(* runs once on some existing path.                                          *)

InitDiscovery ==
    /\ fs = {} /\ pc = "fs"
    /\ IdleDiscovery /\ IdleSong /\ IdleMain

CreateFile ==
    /\ pc = "fs" /\ Cardinality(fs) < MaxNodes
    /\ \E d \in Dirs, nm \in FileNames :
         /\ Depth(d) <= MaxDepth
         /\ ~\E n \in fs : n.parent = d /\ n.name = nm
         /\ fs' = fs \cup {[parent |-> d, name |-> nm, isdir |-> FALSE]}
    /\ UNCHANGED <<lsorder, outkind, start, files, pc, conversion_tag, idx, cur,
                   analysis, called, last, outdir, probedMax, failedAt, log, pass>>

MkDir ==
    /\ pc = "fs" /\ Cardinality(fs) < MaxNodes
    /\ \E d \in Dirs, nm \in DirNames :
         /\ Depth(d) <= MaxDepth
         /\ ~\E n \in fs : n.parent = d /\ n.name = nm
         /\ fs' = fs \cup {[parent |-> d, name |-> nm, isdir |-> TRUE]}
    /\ UNCHANGED <<lsorder, outkind, start, files, pc, conversion_tag, idx, cur,
                   analysis, called, last, outdir, probedMax, failedAt, log, pass>>

\* A call getListOfFiles(p) for an existing path p (a directory or a file),
\* on a file system that enumerates its entries in some order.
Discover ==
    /\ pc = "fs"
    /\ fs' = fs
    /\ \E p \in {Root} \cup {NodePath(n) : n \in fs} :
         /\ start' = p
         /\ lsorder' \in Listings(DirsAt(p))
         /\ files' = getListOfFiles(p)'
    /\ pc' = "listed"
    /\ UNCHANGED <<outkind, conversion_tag, idx, cur, analysis, called,
                   last, outdir, probedMax, failedAt, log, pass>>

NextDiscovery == CreateFile \/ MkDir \/ Discover

SpecDiscovery == InitDiscovery /\ [][NextDiscovery]_vars

(* What the contract of discovery says, stated on the tree itself. *)

AudioExtensions == {s_aiff, s_aif, s_flac, s_wav, s_mp3, s_ogg, s_aac}

\* A file name has an extension when it contains a dot; the extension is what
\* follows the last dot.
HasAudioExtension(name) ==
    Positions(name, ".") # {} /\ SplitLast(name, ".") \in AudioExtensions

Below(d, n) == IsPrefix(d \o <<"/">>, NodePath(n))

\* n lies inside a subdirectory of root that is named "Converted for Rekordbox".
InConvertedFolder(root, n) ==
    \E d \in fs : d.isdir /\ d.name = CFR /\ Below(root, d) /\ Below(NodePath(d), n)

Wanted(root) ==
    { <<NodePath(n), n.name>> :
        n \in { x \in fs : /\ ~x.isdir /\ Below(root, x)
                           /\ HasAudioExtension(x.name)
                           /\ ~IsPrefix(<<".", "_">>, x.name)
                           /\ ~InConvertedFolder(root, x) } }

\* C5: called on a directory, getListOfFiles returns exactly the (full path,
\* file name) pairs of the files below it that have an audio extension, do not
\* begin with "._" and do not lie inside a "Converted for Rekordbox"
\* subdirectory at any depth; each such pair once, and nothing else.
C5_DiscoveryExact ==
    (pc = "listed" /\ isdir(start)) =>
        /\ Range(files) = Wanted(start)
        /\ Len(files) = Cardinality(Wanted(start))


----------------------------------------------------------------------------
(* The external media engine, as far as the program depends on it. *)

OutputDir == <<"o","u","t">>

Str_s16 == <<"s","1","6">>
Str_s24 == <<"s","2","4">>
Str_s32 == <<"s","3","2">>
Str_fltp == <<"f","l","t","p">>

\* A volumedetect run that measured the peak max_db: the n_samples, mean_volume
\* and max_volume lines, and the exit code.
Measured(max_db, exit) ==
    [ exit  |-> exit,
      lines |-> << [label |-> "n_samples", db |-> 0],
                   [label |-> "mean_volume", db |-> max_db - 150],
                   [label |-> "max_volume", db |-> max_db] >> ]

\* A run that printed no reading at all.
Unmeasured(exit) == [exit |-> exit, lines |-> <<>>]

\* What is on disk at the output path after the ffmpeg run of enc: the source
\* it was made from, its container, rate and sample format or bit rate, the
\* gain applied and the tags written; complete is FALSE for what a failed run
\* left behind.
Written(enc, complete) == [enc |-> enc, complete |-> complete]

Put(dir, path, content) ==
    {f \in dir : f.path # path} \cup {[path |-> path, content |-> content]}

\* The output directory after a convert_song call with the given outcome.  A
\* failed ffmpeg run leaves the directory as it was or leaves a partial file.
OutdirAfter(dir, outcome, partial) ==
    IF outcome.enc = {} THEN dir
    ELSE LET enc == CHOOSE e \in outcome.enc : TRUE
         IN  IF outcome.kind = "encoded" THEN Put(dir, enc.path, Written(enc, TRUE))
             ELSE IF partial THEN Put(dir, enc.path, Written(enc, FALSE))
             ELSE dir

\* The probe result of a file the engine wrote with the options enc from a
\* source carrying the tags src_tags: the container, rate, sample format and
\* bit rate asked for, and the source's tags with the two written ones.
ProbeOfOutput(enc, src_tags) ==
    [ ok          |-> TRUE,
      format_name |-> enc.f,
      codec_name  |-> enc.acodec,
      sample_rate |-> enc.ar,
      sample_fmt  |-> IF enc.sample_fmt = {} THEN Str_fltp
                      ELSE CHOOSE x \in enc.sample_fmt : TRUE,
      bit_rate    |-> IF enc.audio_bitrate = {} THEN <<>>
                      ELSE Str(CHOOSE x \in enc.audio_bitrate : TRUE),
      tags        |-> { {kv \in src_tags : \A w \in enc.metadata : w[1] # kv[1]}
                          \cup enc.metadata } ]

\* The volumedetect run on that file: the source's peak moved by the gain.
AnalysisOfOutput(enc, src_max) ==
    Measured(src_max + (IF enc.volume = {} THEN 0 ELSE CHOOSE g \in enc.volume : TRUE), 0)

----------------------------------------------------------------------------
(* Conversion: one constructed Song is converted; when an output was written, *)
(* the output is wrapped into a Song and converted in turn.                   *)

\* The file a probe result of the conversion spec comes from.
FileOf(pr) == <<"a", ".">> \o pr.format_name

ConvSampleRates == { <<"2","2","0","5","0">>, <<"4","4","1","0","0">>,
                     <<"4","8","0","0","0">>, <<"9","6","0","0","0">> }
ConvSampleFmts == { Str_s16, Str_s24, Str_s32 }
ConvBitRates == { <<"1","2","8","0","0","0">>, <<"3","2","0","0","0","0">>,
                  <<"5","0","0","0","0","0">> }
ConvPeaks == { -30, -5, -3, 0 }

ConvProbes ==
    { [ ok |-> TRUE, format_name |-> f, codec_name |-> f, sample_rate |-> sr,
        sample_fmt |-> sf,
        bit_rate |-> IF f = s_flac THEN <<>> ELSE Str(ParseInt(sr) * 32),
        tags |-> {{}} ] :
        f \in Range(LOSSLESS_FORMATS), sr \in ConvSampleRates, sf \in ConvSampleFmts }
    \cup
    { [ ok |-> TRUE, format_name |-> f, codec_name |-> f, sample_rate |-> sr,
        sample_fmt |-> Str_fltp, bit_rate |-> br, tags |-> {{}} ] :
        f \in Range(LOSSY_FORMATS) \cup {s_mov}, sr \in ConvSampleRates,
        br \in ConvBitRates }

ConvRuns == { Measured(p, 0) : p \in ConvPeaks } \cup { Unmeasured(0) }

InitConvert ==
    /\ fs = {} /\ pc = "song" /\ pass = 1
    /\ \E pr \in ConvProbes, an \in ConvRuns :
         /\ SongConstructs(pr)
         /\ cur = {Song(Join(Root, FileOf(pr)), FileOf(pr), pr, an)}
         /\ analysis = an
    /\ last = NoOutcome
    /\ IdleDiscovery /\ IdleMain

TheSong == CHOOSE sg \in cur : TRUE
TheEnc == CHOOSE e \in last.enc : TRUE

Convert ==
    /\ pc = "song"
    /\ \E run_ok \in BOOLEAN, partial \in BOOLEAN :
         LET outcome == convert_song(TheSong, OutputDir, run_ok)
         IN  /\ last' = outcome
             /\ outdir' = OutdirAfter(outdir, outcome, partial)
    /\ pc' = "converted"
    /\ UNCHANGED <<fs, lsorder, outkind, start, files, conversion_tag, idx, cur,
                   analysis, called, probedMax, failedAt, log, pass>>

Reprobe ==
    /\ pc = "converted" /\ pass = 1 /\ last.kind = "encoded"
    /\ LET an == AnalysisOfOutput(TheEnc, CHOOSE v \in TheSong.volume.max : TRUE)
       IN  /\ cur' = {Song(TheEnc.path, SplitLast(TheEnc.path, "/"),
                           ProbeOfOutput(TheEnc, TheSong.tags), an)}
           /\ analysis' = an
    /\ pass' = 2
    /\ pc' = "song"
    /\ UNCHANGED <<fs, lsorder, outkind, start, files, conversion_tag, idx,
                   called, last, outdir, probedMax, failedAt, log>>

NextConvert == Convert \/ Reprobe

SpecConvert == InitConvert /\ [][NextConvert]_vars

(* Properties of convert_song. *)

Lossless(sg) == sg.format \in {s_aiff, s_flac, s_wav}
Lossy(sg) == sg.format \in {s_mp3, s_ogg, s_aac}
PeakOf(sg) == CHOOSE v \in sg.volume.max : TRUE
DepthOf(sg) == CHOOSE v \in sg.bit_depth : TRUE
RateOf(sg) == CHOOSE v \in sg.bit_rate : TRUE

\* The compatibility profile as the specification words it.
Compliant(sg) ==
    /\ sg.sample_rate <= 44100
    /\ PeakOf(sg) = -5
    /\ \/ (Lossless(sg) /\ DepthOf(sg) <= 16)
       \/ (Lossy(sg) /\ RateOf(sg) <= 320000)

\* C1: a song of a supported format with a measured peak is skipped (notice,
\* no encode, no error) if and only if its sample rate is <= 44100 Hz, its
\* peak is exactly -0.5 dB and its bit depth is <= 16 (lossless) or its bit
\* rate is <= 320000 bps (lossy); otherwise exactly one encode is invoked.
\* In particular an MP3 at 44100 Hz, 128000 bps and -0.5 dB is skipped.
C1_SkipIffCompliant ==
    (pc = "converted" /\ pass = 1 /\ TheSong.volume.max # {}
        /\ (Lossless(TheSong) \/ Lossy(TheSong))) =>
        /\ (last.kind = "skipped") <=> Compliant(TheSong)
        /\ (last.kind = "skipped") => (last.notice = "no need" /\ last.enc = {})
        /\ (last.kind # "skipped") => Cardinality(last.enc) = 1
        /\ (TheSong.format = s_mp3 /\ TheSong.sample_rate = 44100
              /\ TheSong.bit_rate = {128000} /\ TheSong.volume.max = {-5})
             => last.kind = "skipped"

Clamped(out, in, ceiling) == out <= ceiling /\ out <= in /\ (out = in \/ out = ceiling)

\* C2: whenever convert_song builds an encode, a lossless input goes to
\* "aiff" with codec pcm_s16le, bit depth min(input, 16) and sample rate
\* min(input, 44100); a lossy input goes to "mp3" with bit rate
\* min(input, 320000) and sample rate min(input, 44100); no output value
\* exceeds the input's.
C2_TargetClampedDown ==
    (pc = "converted" /\ last.enc # {}) =>
        /\ IsDigits(TheEnc.ar)
        /\ Clamped(ParseInt(TheEnc.ar), TheSong.sample_rate, 44100)
        /\ Lossless(TheSong) =>
             /\ TheEnc.f = s_aiff /\ TheEnc.acodec = s_pcm_s16le
             /\ TheEnc.audio_bitrate = {}
             /\ \E b \in 1..16 : /\ TheEnc.sample_fmt = {<<"s">> \o Str(b)}
                                 /\ Clamped(b, DepthOf(TheSong), 16)
        /\ Lossy(TheSong) =>
             /\ TheEnc.f = s_mp3 /\ TheEnc.acodec = s_mp3
             /\ TheEnc.sample_fmt = {}
             /\ \E r \in TheEnc.audio_bitrate :
                  /\ TheEnc.audio_bitrate = {r}
                  /\ Clamped(r, RateOf(TheSong), 320000)

\* Both ceilings bite: a 96 kHz / 32-bit FLAC was encoded.
C2_Witness ==
    /\ pc = "converted" /\ last.kind = "encoded" /\ pass = 1
    /\ TheSong.format = s_flac /\ TheSong.sample_rate = 96000
    /\ TheSong.bit_depth = {32}
    /\ TheEnc.ar = <<"4","4","1","0","0">> /\ TheEnc.sample_fmt = {Str_s16}

\* The gain the encode applies, 0 when the raw stream is encoded.
GainOf(enc) == IF enc.volume = {} THEN 0 ELSE CHOOSE g \in enc.volume : TRUE

\* C3: for every encode convert_song builds, gain + measured peak = -0.5 dB;
\* the volume filter is applied exactly when that gain is not zero; and a
\* FLAC at 96000 Hz / 24 bit / -3.0 dB goes to AIFF, 44100 Hz, 16 bit, +2.5 dB.
C3_OffsetReachesPeak ==
    (pc = "converted" /\ last.enc # {}) =>
        /\ GainOf(TheEnc) + PeakOf(TheSong) = -5
        /\ (TheEnc.volume = {}) <=> (PeakOf(TheSong) = -5)
        /\ TheEnc.volume # {0}
        /\ (TheSong.format = s_flac /\ TheSong.sample_rate = 96000
              /\ TheSong.bit_depth = {24} /\ PeakOf(TheSong) = -30) =>
             /\ TheEnc.f = s_aiff /\ TheEnc.ar = <<"4","4","1","0","0">>
             /\ TheEnc.sample_fmt = {Str_s16} /\ TheEnc.volume = {25}

\* The scenario of C3 was converted.
C3_Witness ==
    /\ pc = "converted" /\ last.kind = "encoded" /\ pass = 1
    /\ TheSong.format = s_flac /\ TheSong.sample_rate = 96000
    /\ TheSong.bit_depth = {24} /\ PeakOf(TheSong) = -30
    /\ TheEnc.volume = {25}

\* C4: converting the output of a conversion takes the no-op path.
C4_Idempotent ==
    (pc = "converted" /\ pass = 2) => (last.kind = "skipped" /\ last.enc = {})

\* C9: a Song of a supported format carries a bit depth and no bit rate when
\* its format is lossless, a bit rate and no bit depth when it is lossy, in
\* every state from construction through conversion.
C9_ExactlyOneBitField ==
    \A sg \in cur :
        /\ Lossless(sg) => (sg.bit_depth # {} /\ sg.bit_rate = {})
        /\ Lossy(sg) => (sg.bit_rate # {} /\ sg.bit_depth = {})

\* A WAV whose stream reports a bit rate went through convert_song.
C9_Witness ==
    /\ pc = "converted" /\ last.kind = "encoded" /\ pass = 1
    /\ TheSong.format = s_wav /\ TheSong.bit_depth = {16} /\ TheSong.bit_rate = {}
    /\ analysis = Measured(-30, 0)

----------------------------------------------------------------------------
(* format_for_rekordbox.py: main.  A batch run over a music directory. *)

\* Mutation of ShouldConvert: a file that carries the tag is converted
\* whatever the tag's value.
ShouldConvert_anyvalue(tag, song) ==
    IF tag # {} THEN has_tag(song, CHOOSE t \in tag : TRUE) ELSE TRUE

\* format_for_rekordbox.py:27-32: whether convert_song is called for song.
ShouldConvert(tag, song) ==
    IF tag # {}
      THEN LET CONVERSION_TAG == CHOOSE t \in tag : TRUE
           IN  IF has_tag(song, CONVERSION_TAG)
                 THEN TagValue(song, CONVERSION_TAG) = "1"
                 ELSE FALSE
      ELSE TRUE

\* Mutation of PcAfter: an exception raised for one file is caught and the
\* loop goes on.
PcAfter_isolated(raised, more) == IF more THEN "loop" ELSE "done"

\* format_for_rekordbox.py:22-32: the loop has no exception handler, so an
\* exception raised by Song() or convert_song leaves main; otherwise the loop
\* goes to the next file, or ends after the last one.
PcAfter(raised, more) ==
    IF raised THEN "crashed" ELSE IF more THEN "loop" ELSE "done"

MainNames == { <<"a",".","m","p","3">>, <<"a",".","b",".","m","p","3">>,
               <<"a",".","f","l","a","c">>, <<"a",".","w","a","v">> }

MainTags == { {}, {{}}, {{<<"CONVERT", "1">>}}, {{<<"CONVERT", "0">>}},
              {{<<"VOCALS", "1">>}} }

Str_flt == <<"f","l","t">>

\* What ffprobe may report for the file called name: a file it cannot read,
\* a tagged lossless file of floating-point samples, or the container named by
\* the extension with one of a few rates, sample formats and tag sets
\* (tags {} : the format section has no 'tags' key).
MainProbes(name) ==
    LET f == SplitLast(name, ".")
    IN  { [ ok |-> FALSE, format_name |-> <<>>, codec_name |-> <<>>,
            sample_rate |-> <<>>, sample_fmt |-> <<>>, bit_rate |-> <<>>,
            tags |-> {} ] }
        \cup
        { [ ok |-> TRUE, format_name |-> g, codec_name |-> g,
            sample_rate |-> <<"4","4","1","0","0">>, sample_fmt |-> Str_flt,
            bit_rate |-> <<>>, tags |-> {{<<"CONVERT", "1">>}} ] :
            g \in {f} \cap {s_wav} }
        \cup
        { [ ok |-> TRUE, format_name |-> f, codec_name |-> f, sample_rate |-> sr,
            sample_fmt |-> sf,
            bit_rate |-> IF f = s_flac THEN <<>> ELSE <<"1","2","8","0","0","0">>,
            tags |-> tg ] :
            sr \in { <<"4","4","1","0","0">>, <<"9","6","0","0","0">> },
            sf \in IF f = s_mp3 THEN {Str_fltp} ELSE {Str_s32},
            tg \in MainTags }

MainRuns == { Measured(p, e) : p \in {-5, -30}, e \in {0, 1} } \cup { Unmeasured(1) }

Init ==
    /\ pc = "main"
    /\ \E names \in SUBSET MainNames :
         /\ Cardinality(names) \in 1..MaxFiles
         /\ fs = { [parent |-> Root, name |-> nm, isdir |-> FALSE] : nm \in names }
    /\ conversion_tag \in { {}, {"CONVERT"} }
    /\ outkind \in {"absent", "dir", "file", "orphan"}
    /\ idx = 0 /\ called = FALSE /\ outdir = {} /\ probedMax = 0 /\ failedAt = 0
    /\ log = <<>>
    /\ IdleDiscovery /\ IdleSong

\* format_for_rekordbox.py:20-21: os.mkdir is called when the output path is
\* no directory, and raises when a file is there (FileExistsError) or when the
\* parent of the path does not exist (FileNotFoundError).
MkdirRaises(kind) == kind \in {"file", "orphan"}

\* What main did with one file: the tag mapping ffprobe reported for it (a
\* set, empty when the file has none), whether Song() returned, and whether
\* convert_song was called.
Handled(pr, built, call) ==
    [tags |-> UNION pr.tags, built |-> built, called |-> call]

\* format_for_rekordbox.py:19-21: the file list, in the order the file system
\* enumerates the directory; the output directory is created when it does not
\* exist.  An exception of os.mkdir leaves main before any file is probed.
MainStart ==
    /\ pc = "main"
    /\ fs' = fs
    /\ lsorder' \in Listings(DirsAt(Root))
    /\ start' = Root
    /\ files' = getListOfFiles(Root)'
    /\ idx' = 1
    /\ outkind' = IF outkind = "absent" THEN "dir" ELSE outkind
    /\ pc' = IF MkdirRaises(outkind) THEN "crashed"
             ELSE PcAfter(FALSE, files' # <<>>)
    /\ UNCHANGED <<conversion_tag, cur, analysis, called, last, outdir,
                   probedMax, failedAt, log, pass>>

\* format_for_rekordbox.py:22-32: one iteration of the loop, for files[idx].
MainIter ==
    /\ pc = "loop"
    /\ LET full_path == files[idx][1]
           file_name == files[idx][2]
       IN  \E pr \in MainProbes(file_name), an \in MainRuns,
              run \in {"ok", "failed", "failed, partial file"} :
             LET run_ok == run = "ok"
                 partial == run = "failed, partial file"
             IN
             IF ~SongConstructs(pr)
               THEN /\ cur' = {} /\ analysis' = NoAnalysis
                    /\ called' = FALSE /\ last' = NoOutcome
                    /\ log' = Append(log, Handled(pr, FALSE, FALSE))
                    /\ outdir' = outdir
                    /\ failedAt' = idx /\ idx' = idx
                    /\ pc' = PcAfter(TRUE, idx < Len(files))
               ELSE LET cur_song == Song(full_path, file_name, pr, an)
                        call == ShouldConvert(conversion_tag, cur_song)
                        outcome == IF call
                                     THEN convert_song(cur_song, OutputDir, run_ok)
                                     ELSE NoOutcome
                        raised == outcome.kind = "raised"
                    IN  /\ cur' = {cur_song} /\ analysis' = an
                        /\ called' = call /\ last' = outcome
                        /\ log' = Append(log, Handled(pr, TRUE, call))
                        /\ outdir' = OutdirAfter(outdir, outcome, partial)
                        /\ failedAt' = IF raised THEN idx ELSE failedAt
                        /\ pc' = PcAfter(raised, idx < Len(files))
                        /\ idx' = IF pc' = "crashed" THEN idx ELSE idx + 1
    /\ probedMax' = idx
    /\ UNCHANGED <<fs, lsorder, outkind, start, files, conversion_tag, pass>>

Next == MainStart \/ MainIter

Spec == Init /\ [][Next]_vars

(* Properties of a batch run. *)

\* The file's tag mapping holds tag t with the value "1".
Tagged(entry, t) == <<t, "1">> \in entry.tags

\* The tag test of the claim, for a file main has handled.
Selected(entry) ==
    conversion_tag = {} \/ \E t \in conversion_tag : Tagged(entry, t)

\* C6 as stated: when a run that reached its first file has ended,
\* convert_song has been called for a discovered file exactly when its tags
\* hold T with the value "1", and for every discovered file when the option
\* was omitted.
C6_TagFilter ==
    (pc = "done" \/ (pc = "crashed" /\ probedMax >= 1)) =>
        /\ Len(log) = Len(files)
        /\ \A i \in 1..Len(log) : log[i].called <=> Selected(log[i])

\* C6 as the code has it: convert_song is called for a discovered file exactly
\* when the run reached the file, Song() returned for it, and its tags hold T
\* with the value "1" or the option was omitted; a file it is not called for
\* gets no notice and no encode.
C6_TagFilterOfBuiltSongs ==
    /\ Len(log) = probedMax /\ Len(log) <= Len(files)
    /\ \A i \in 1..Len(log) :
         log[i].called <=> (log[i].built /\ Selected(log[i]))
    /\ (pc \in {"loop", "done", "crashed"} /\ probedMax >= 1) =>
         /\ called = log[Len(log)].called
         /\ log[Len(log)].built <=> cur # {}
         /\ \A sg \in cur : sg.tags = log[Len(log)].tags
         /\ ~called => last = NoOutcome
         /\ called => last # NoOutcome

\* A tag-filtered run converted its first file, tagged "1", and passed over
\* its second, whose tag has another value.
C6_Witness ==
    /\ conversion_tag = {"CONVERT"} /\ pc = "done" /\ Len(log) = 2
    /\ log[1].called /\ Tagged(log[1], "CONVERT")
    /\ log[2].built /\ ~log[2].called /\ <<"CONVERT", "0">> \in log[2].tags
    /\ outdir # {}

\* C7 as stated: whatever fails for one file, every file of the list is still
\* probed by the time a run that reached its first file has ended.
C7_ErrorsIsolated ==
    (pc \in {"done", "crashed"} /\ probedMax >= 1) => probedMax = Len(files)

\* C7 as the code has it: an error raised while a file is probed or converted
\* ends the run at that file; no later file is probed.  A run ends early only
\* so, or at startup, before any file, when the output directory cannot be
\* created.
C7_FailureAborts ==
    /\ failedAt # 0 => (pc = "crashed" /\ probedMax = failedAt /\ idx = failedAt)
    /\ (pc = "crashed" /\ probedMax >= 1) => failedAt = probedMax
    /\ (pc = "crashed" /\ probedMax = 0) => MkdirRaises(outkind)
    /\ pc = "done" => probedMax = Len(files)

\* The first of two files failed and the second was never probed.
C7_Witness ==
    pc = "crashed" /\ failedAt = 1 /\ Len(files) = 2 /\ probedMax = 1

\* The file name with only its final extension removed.
Stem(filename) ==
    IF Positions(filename, ".") = {} THEN filename
    ELSE SubSeq(filename, 1, Len(filename) - Len(SplitLast(filename, ".")) - 1)

\* C8: every encode writes to <output directory>/<display name>.<format>,
\* the display name being the file name without its final extension, and a
\* completed encode replaces whatever was at that path.
C8_OutputPath ==
    \A sg \in cur : \A enc \in last.enc :
        /\ enc.path = OutputDir \o <<"/">>
                        \o Stem(SplitLast(sg.input_stream, "/"))
                        \o <<".">> \o enc.f
        /\ last.kind = "encoded" =>
             [path |-> enc.path, content |-> Written(enc, TRUE)] \in outdir
        /\ \A f, g \in outdir : f.path = g.path => f = g

\* The last reading of a label in the diagnostic lines ({} when there is none).
LastReading(lines, label) ==
    LET at == {i \in 1..Len(lines) : lines[i].label = label}
    IN  IF at = {} THEN {}
        ELSE {lines[CHOOSE i \in at : \A j \in at : i >= j].db}

\* C10 as stated: after an abnormal exit of the analysis process, its lines
\* are not used as the song's loudness.
C10_ExitChecked ==
    \A sg \in cur :
        analysis.exit # 0 => sg.volume = [mean |-> {}, max |-> {}]

\* C10 as the code has it: the readings found in the diagnostic lines are
\* stored whatever the exit status of the analysis process.
C10_ReadingsKeptWhateverExit ==
    \A sg \in cur :
        /\ sg.volume.max = LastReading(analysis.lines, "max_volume")
        /\ sg.volume.mean = LastReading(analysis.lines, "mean_volume")

\* A song holds the peak printed by an analysis run that exited with an error.
C10_Witness ==
    \E sg \in cur : analysis.exit # 0 /\ sg.volume.max = {-30} /\ pc = "loop"

====
